---- MODULE Spec2Model ----
(***************************************************************************)
(* RainDigest: a model of                                                  *)
(*   - VideoProcessor.capture_best_frames        (src/src/media.py)        *)
(*   - main, the summarizer loop                 (src/src/main.py)         *)
(*   - RaindropOrganizer.run / _process_item     (src/src/organizer.py)    *)
(*                                                                         *)
(* Times are counted in half seconds, the common unit of the probe offsets *)
(* 0, 1.0 and 1.5 s, so that a time t in seconds is the integer 2*t.       *)
(***************************************************************************)
EXTENDS Integers, Sequences, FiniteSets, TLC

VARIABLES
    \* ---- capture_best_frames ----
    video,          \* the file at video_path: [exists, decodable, frames]
    timestamps,     \* the candidate list handed to the call
    dirOK,          \* whether output_dir.mkdir succeeds
    pc,             \* position of the call
    cap,            \* the cv2.VideoCapture handle: "none", "open", "released"
    releases,       \* number of cap.release() calls made
    capPos,         \* the decoder's seek position (half seconds)
    idx,            \* index of the candidate being handled (0 before the loop)
    k,              \* index into offsets of the next probe
    best_score, best_frame, best_time,
    saved_frames,   \* the list being built, and returned
    savedFrom,      \* history: for each element of saved_frames, its candidate index
    files,          \* the files present in output_dir: set of [path, frame]
    probes,         \* history: the seek-and-decode attempts made, in order
    outcome,        \* how the call ended: "running", "returned", "raised"
    call,           \* 1 during the first call on the video, 2 during a second
    first,          \* history: <<>>, or <<what the first call left>>
    \* ---- main ----
    DRY_RUN,        \* settings.DRY_RUN
    MAX_ITEMS,      \* settings.MAX_ITEMS
    r2_enabled,     \* r2_storage.enabled
    readwise_token, \* whether settings.READWISE_TOKEN is set
    inColl,         \* the service: for each bookmark its collection (0: none)
    tagsOf,         \* the service: for each bookmark its tags
    historyFile,    \* the ids stored in data/history.json
    history,        \* the in-memory set of main
    mpc,            \* position of main
    ci,             \* index of the current collection in collections
    collections,    \* the ids get_collections returned, in dict order
    new_candidates, \* the unprocessed candidates of the current collection
    ii,             \* index of the current item in new_candidates
    processed_count,
    cur,            \* transcript, audio_path and meta of the current item
                    \* (forgotten when the iteration ends: line 89 assigns
                    \* them anew before anything reads them)
    images_md,          \* <<>> for "", else <<block>>
    images_html_block,  \* <<>> while the name is unbound, else <<block>>
    dirEv,          \* history: what AI Director mode did for the current item
    verified,       \* history: ids given to verify_url
    downloaded,     \* history: ids given to video_processor.process
    summarized,     \* history: ids whose summary the LLM returned
    mdFiles,        \* the Markdown files written: set of [id, images]
    readwiseDocs,   \* the documents Readwise accepted: set of [id, images]
    tagUpdates,     \* the PUT requests raindrop.io received: set of [id, tags]
    r2Deleted,      \* whether cleanup_old_files deleted objects
    \* ---- RaindropOrganizer ----
    unsortedVideo,  \* the service: for each Unsorted bookmark, whether it is
                    \* a video candidate
    opc,            \* position of run
    orgColls,       \* the collections fetched at the start of run
    unsorted_items, \* the items run iterates over
    oi,             \* index of the current item
    answers,        \* history: what classify_bookmark returned for each item
    moveCalls,      \* history: the calls of move_bookmark made (line 71), as
                    \* [id, cid], whether or not they got to the service
    moves,          \* the move requests raindrop.io received: set of [id, cid]
    \* ---- R2Storage.cleanup_old_files ----
    bucket,         \* the service: the pages list_objects_v2 gives
    enabled,        \* self.enabled
    cpc,            \* position of cleanup_old_files
    pg,             \* number of pages the loop of line 87 has taken
    objects_to_delete,  \* the list built at lines 85-93: keys
    bi,             \* the i of the loop of line 99
    deleteRequests, \* history: the batches given to delete_objects, in order
    storageFailed,  \* history: a storage call raised
    cleanupOutcome  \* "running", "returned", "raised"

capVars == <<video, timestamps, dirOK, pc, cap, releases, capPos, idx, k,
             best_score, best_frame, best_time, saved_frames, savedFrom,
             files, probes, outcome, call, first>>

mainVars == <<DRY_RUN, MAX_ITEMS, r2_enabled, readwise_token, inColl, tagsOf,
              historyFile, history, mpc, ci, collections, new_candidates,
              ii,
              processed_count, cur, images_md, images_html_block, dirEv,
              verified, downloaded, summarized, mdFiles, readwiseDocs,
              tagUpdates, r2Deleted>>

orgVars == <<unsortedVideo, opc, orgColls, unsorted_items, oi, answers,
             moveCalls, moves>>

cleanVars == <<bucket, enabled, cpc, pg, objects_to_delete, bi,
               deleteRequests, storageFailed, cleanupOutcome>>

vars == <<capVars, mainVars, orgVars, cleanVars>>

----------------------------------------------------------------------------
(* Bounds of the model *)

MaxCands == 3       \* longest candidate list
MaxDur   == 4       \* longest video, in half seconds
MaxScore == 1       \* largest edge-density score a frame can have
MaxBookmarks == 2   \* number of bookmarks the service holds
MaxCues  == 2       \* most visual cues the LLM returns for one video
MaxLimit == 2       \* largest MAX_ITEMS setting tried
MaxColls == 2       \* number of collections the service holds
MaxUnsorted == 2    \* number of bookmarks in Unsorted
MaxPages == 2       \* most pages the bucket listing has

----------------------------------------------------------------------------
(* Values *)

\* safe_reason is cut to its first 20 characters
ReasonCut == 20

\* Characters are one-letter strings; a reason is a sequence of characters.
\* str.isalnum holds of the letters and the digits of every script: the
\* letters the reasons below are made of, a digit, and a CJK character.
Alnum == {"a", "b", "e", "k", "m", "n", "o", "t", "y", "1", "U+5716"}

\* The default of item.get('reason', 'key_moment')
KeyMoment == <<"k", "e", "y", "_", "m", "o", "m", "e", "n", "t">>

\* A frame of the stream: it decodes or not, and a decoded image has the
\* edge density np.mean(Canny(gray, 100, 200)), a function of the image.
FrameVals == { [ok |-> TRUE, score |-> s] : s \in 0..MaxScore }
               \cup { [ok |-> FALSE, score |-> 0] }

\* The file at video_path: absent, present but not a video cv2 can open, or
\* a stream of MaxDur half seconds. A shorter stream behaves as one whose
\* last frames do not decode, so these cover the shorter durations too.
Videos ==
    { [exists |-> FALSE, decodable |-> FALSE, frames |-> <<>>],
      [exists |-> TRUE,  decodable |-> FALSE, frames |-> <<>>] }
    \cup { [exists |-> TRUE, decodable |-> TRUE, frames |-> f] :
             f \in [1..MaxDur -> FrameVals] }

\* Candidates, as json.loads of the LLM's answer can produce them: a dict
\* with a numeric timestamp, a dict whose timestamp is not a number, a dict
\* whose reason is not a string, a dict without the two keys, and an element
\* that is not a dict at all. reason_kind tells what the value under
\* 'reason' is: "str", a string, whose characters are in reason; "list", a
\* list of strings (or a dict, which iterates over its keys), whose
\* elements are in reason_list, each a sequence of characters; "other", a
\* value that cannot be iterated over (null, a number) or a list with an
\* element that is not a string.
Cand(t, r) ==
    [dict |-> TRUE, has_ts |-> TRUE, ts_num |-> TRUE, timestamp |-> t,
     has_reason |-> TRUE, reason_kind |-> "str", reason |-> r,
     reason_list |-> <<>>]
CandStrTs(r) ==
    [dict |-> TRUE, has_ts |-> TRUE, ts_num |-> FALSE, timestamp |-> 0,
     has_reason |-> TRUE, reason_kind |-> "str", reason |-> r,
     reason_list |-> <<>>]
CandListReason(t, l) ==
    [dict |-> TRUE, has_ts |-> TRUE, ts_num |-> TRUE, timestamp |-> t,
     has_reason |-> TRUE, reason_kind |-> "list", reason |-> <<>>,
     reason_list |-> l]
CandNullReason(t) ==
    [dict |-> TRUE, has_ts |-> TRUE, ts_num |-> TRUE, timestamp |-> t,
     has_reason |-> TRUE, reason_kind |-> "other", reason |-> <<>>,
     reason_list |-> <<>>]
CandNoKeys ==
    [dict |-> TRUE, has_ts |-> FALSE, ts_num |-> FALSE, timestamp |-> 0,
     has_reason |-> FALSE, reason_kind |-> "other", reason |-> <<>>,
     reason_list |-> <<>>]
CandNotDict ==
    [dict |-> FALSE, has_ts |-> FALSE, ts_num |-> FALSE, timestamp |-> 0,
     has_reason |-> FALSE, reason_kind |-> "other", reason |-> <<>>,
     reason_list |-> <<>>]

\* A reason with a character that is not alphanumeric among its first
\* ReasonCut characters, and more than ReasonCut alphanumeric ones
LongReason ==
    <<"a", "!">> \o [i \in 1..(ReasonCut + 1) |-> IF i % 2 = 1 THEN "b" ELSE "a"]

\* The reason ["ab", "b!"]
WordsReason == << <<"a", "b">>, <<"b", "!">> >>

\* A candidate at the start, one near the end (its later probes fall past
\* the end of the stream), one at the end (all its probes fall past it), and
\* the malformed ones.
Items ==
    { Cand(0, LongReason), Cand(MaxDur - 2, <<"b">>), Cand(MaxDur, <<"a">>),
      CandStrTs(<<"a">>), CandListReason(0, WordsReason), CandNullReason(0),
      CandNoKeys, CandNotDict }

CandLists == UNION { [1..n -> Items] : n \in 0..MaxCands }

----------------------------------------------------------------------------
(* capture_best_frames: helpers *)

\* offsets = [0, 1.0, 1.5], in half seconds
offsets_docstring == <<0, 2, 4>>
offsets == <<0, 2, 3>>

\* item.get('timestamp', 0): meaningful when the item is a dict
TargetTime(item) == IF item.has_ts THEN item.timestamp ELSE 0

\* item.get('reason', 'key_moment')
ReasonOf(item) == IF item.has_reason THEN item.reason ELSE KeyMoment

\* The value of item.get('reason', 'key_moment') is a string
ReasonIsStr(item) == ~item.has_reason \/ item.reason_kind = "str"

\* Iterating over a string gives its characters, each a string of length 1
Chars(s) == [n \in 1..Len(s) |-> << s[n] >>]

\* Line 229, `for c in reason`: the strings the iteration gives: the
\* characters of a string, the elements of a list
ReasonParts(item) ==
    IF ReasonIsStr(item) THEN Chars(ReasonOf(item)) ELSE item.reason_list

\* Handling the item raises: item.get on a non-dict (AttributeError), or
\* target_time + offset on a timestamp that is not a number (TypeError).
ItemRaises(item) == ~item.dict \/ (item.has_ts /\ ~item.ts_num)

\* Line 229: `for c in reason` raises TypeError on a value that cannot be
\* iterated over (None, a number), and c.isalnum() raises AttributeError
\* on an element that is not a string; a string, the default 'key_moment'
\* and a list of strings raise nothing.
ReasonRaises(item) == item.has_reason /\ item.reason_kind = "other"

\* cap.isOpened() after cv2.VideoCapture(str(video_path)), guarded by
\* video_path.exists()
CanOpen_existsOnly(v) == v.exists
CanOpen(v) == v.exists /\ v.decodable

\* cap.set(cv2.CAP_PROP_POS_MSEC, check_time * 1000): the new position
SeekTo(pos, check_time) == check_time

\* cap.read() at position pos: <<frame>> when ret is true, <<>> when not
NoFrame == <<>>
Read(v, pos) ==
    IF pos >= 0 /\ pos < Len(v.frames) /\ v.frames[pos + 1].ok
    THEN << [pos |-> pos, score |-> v.frames[pos + 1].score] >>
    ELSE NoFrame

\* np.mean(cv2.Canny(cv2.cvtColor(frame, BGR2GRAY), 100, 200))
Score(frame) == frame.score

\* if score > best_score
Better_orEqual(score, best) == score >= best
Better(score, best) == score > best

\* c.isalnum() for a string c: it is not empty and all its characters are
\* alphanumeric
IsAlnumStr(c) == c # <<>> /\ \A n \in 1..Len(c) : c[n] \in Alnum

\* "".join([c for c in reason if c.isalnum()]), on the strings the
\* iteration gives
RECURSIVE OnlyAlnum(_)
OnlyAlnum(parts) ==
    IF parts = <<>> THEN <<>>
    ELSE (IF IsAlnumStr(Head(parts)) THEN Head(parts) ELSE <<>>)
             \o OnlyAlnum(Tail(parts))

\* ...[:20]
SafeReason_cutFirst(parts) ==
    OnlyAlnum(IF Len(parts) > ReasonCut THEN SubSeq(parts, 1, ReasonCut)
              ELSE parts)
SafeReason(parts) ==
    LET a == OnlyAlnum(parts)
    IN  IF Len(a) > ReasonCut THEN SubSeq(a, 1, ReasonCut) ELSE a

\* output_dir / f"{int(best_time)}_{safe_reason}.jpg"
FramePath_rounded(bt, parts) ==
    [sec |-> (bt + 1) \div 2, name |-> SafeReason(parts)]
FramePath(bt, parts) == [sec |-> bt \div 2, name |-> SafeReason(parts)]

\* if best_frame is not None
ShouldSave(bf) == bf # NoFrame

\* saved_frames.append(str(out_path))
AppendSaved_front(saved, path) == <<path>> \o saved
AppendSaved_twice(saved, path) == Append(Append(saved, path), path)
AppendSaved(saved, path) == Append(saved, path)

\* cv2.imwrite(str(out_path), best_frame) that succeeded: the file is
\* created or replaced
WriteFile(fs, path, frame) ==
    { f \in fs : f.path # path } \cup { [path |-> path, frame |-> frame] }

----------------------------------------------------------------------------
(* capture_best_frames: the call *)

\* The positions the probes of a candidate list seek to
ProbedPositions(cands) ==
    { TargetTime(cands[i]) + offsets[j] :
          i \in 1..Len(cands), j \in 1..Len(offsets) }

\* The call reads the frames at the probed positions only: videos that
\* differ elsewhere are the same input to it, and the one whose other frames
\* do not decode stands for them.
CaptureInit ==
    /\ timestamps \in CandLists
    /\ video \in Videos
    /\ \A p \in 1..Len(video.frames) :
           (p - 1) \notin ProbedPositions(timestamps) => ~video.frames[p].ok
    /\ dirOK \in BOOLEAN
    /\ pc = "start"
    /\ cap = "none"
    /\ releases = 0
    /\ capPos = 0
    /\ idx = 0
    /\ k = 1
    /\ best_score = -1
    /\ best_frame = NoFrame
    /\ best_time = 0
    /\ saved_frames = <<>>
    /\ savedFrom = <<>>
    /\ files = {}
    /\ probes = <<>>
    /\ outcome = "running"
    /\ call = 1
    /\ first = <<>>

\* Line 197: saved_frames = [], a new list in every call
SavedFramesAtOpen_kept == saved_frames
SavedFramesAtOpen == <<>>

\* Lines 189-195: the path does not exist, or the capture does not open:
\* return [].
NotOpened ==
    /\ pc = "start"
    /\ ~CanOpen(video)
    /\ pc' = "done"
    /\ outcome' = "returned"
    /\ saved_frames' = <<>>
    /\ UNCHANGED <<video, timestamps, dirOK, cap, releases, capPos, idx, k,
                   best_score, best_frame, best_time,
                   savedFrom, files, probes>>
    /\ UNCHANGED <<call, first, mainVars, orgVars, cleanVars>>

\* Lines 192-198: the capture opens, saved_frames = [], and
\* output_dir.mkdir(parents=True, exist_ok=True) succeeds or raises OSError.
Opened ==
    /\ pc = "start"
    /\ CanOpen(video)
    /\ cap' = "open"
    /\ saved_frames' = SavedFramesAtOpen
    /\ IF dirOK
       THEN pc' = "loop" /\ outcome' = outcome
       ELSE pc' = "raised" /\ outcome' = "raised"
    /\ UNCHANGED <<video, timestamps, dirOK, releases, capPos, idx, k,
                   best_score, best_frame, best_time, savedFrom, files,
                   probes>>
    /\ UNCHANGED <<call, first, mainVars, orgVars, cleanVars>>

\* Lines 200-209: the next candidate is taken and its search initialised.
BeginCandidate ==
    /\ pc = "loop"
    /\ idx < Len(timestamps)
    /\ ~ItemRaises(timestamps[idx + 1])
    /\ idx' = idx + 1
    /\ best_score' = -1
    /\ best_frame' = NoFrame
    /\ best_time' = TargetTime(timestamps[idx + 1])
    /\ k' = 1
    /\ pc' = "probe"
    /\ UNCHANGED <<video, timestamps, dirOK, cap, releases, capPos,
                   saved_frames, savedFrom, files, probes, outcome>>
    /\ UNCHANGED <<call, first, mainVars, orgVars, cleanVars>>

\* Lines 200-212: the next candidate raises, at item.get (line 201) or at
\* target_time + offset (line 212). Nothing in the function catches it: the
\* exception leaves the call, past cap.release() and the return.
CandidateRaises ==
    /\ pc = "loop"
    /\ idx < Len(timestamps)
    /\ ItemRaises(timestamps[idx + 1])
    /\ idx' = idx + 1
    /\ pc' = "raised"
    /\ outcome' = "raised"
    /\ UNCHANGED <<video, timestamps, dirOK, cap, releases, capPos, k,
                   best_score, best_frame, best_time, saved_frames,
                   savedFrom, files, probes>>
    /\ UNCHANGED <<call, first, mainVars, orgVars, cleanVars>>

\* Lines 211-225: one probe: seek, decode, score, compare.
Probe ==
    /\ pc = "probe"
    /\ k <= Len(offsets)
    /\ LET target_time == TargetTime(timestamps[idx])
           check_time  == target_time + offsets[k]
           pos         == SeekTo(capPos, check_time)
           got         == Read(video, pos)
       IN  /\ capPos' = pos
           /\ probes' = Append(probes, [cand |-> idx, time |-> check_time,
                                        ret |-> got # NoFrame])
           /\ IF got # NoFrame /\ Better(Score(got[1]), best_score)
              THEN /\ best_score' = Score(got[1])
                   /\ best_frame' = got
                   /\ best_time' = check_time
              ELSE UNCHANGED <<best_score, best_frame, best_time>>
    /\ k' = k + 1
    /\ pc' = IF k = Len(offsets) THEN "save" ELSE "probe"
    /\ UNCHANGED <<video, timestamps, dirOK, cap, releases, idx,
                   saved_frames, savedFrom, files, outcome>>
    /\ UNCHANGED <<call, first, mainVars, orgVars, cleanVars>>

\* Lines 227-234: the winning frame is written and its path appended.
\* cv2.imwrite returns False when it cannot write (directory removed, disk
\* full, permission); the return value is not looked at.
SaveFrame ==
    /\ pc = "save"
    /\ ShouldSave(best_frame)
    /\ ~ReasonRaises(timestamps[idx])
    /\ \E wrote \in BOOLEAN :
         LET out_path == FramePath(best_time, ReasonParts(timestamps[idx]))
         IN  /\ files' = IF wrote /\ best_frame # NoFrame
                         THEN WriteFile(files, out_path, best_frame[1])
                         ELSE files
             /\ saved_frames' = AppendSaved(saved_frames, out_path)
             /\ savedFrom' = Append(savedFrom,
                    [cand |-> idx, best_time |-> best_time,
                     frame |-> best_frame, path |-> out_path,
                     wrote |-> wrote])
    /\ pc' = "loop"
    /\ UNCHANGED <<video, timestamps, dirOK, cap, releases, capPos, idx, k,
                   best_score, best_frame, best_time, probes, outcome>>
    /\ UNCHANGED <<call, first, mainVars, orgVars, cleanVars>>

\* Lines 227-229: a probe decoded and the reason is not a string: the
\* comprehension of line 229 raises TypeError before cv2.imwrite. Nothing
\* is written or appended for the candidate, and the exception leaves the
\* call, past cap.release() and the return.
SaveRaises ==
    /\ pc = "save"
    /\ ShouldSave(best_frame)
    /\ ReasonRaises(timestamps[idx])
    /\ pc' = "raised"
    /\ outcome' = "raised"
    /\ UNCHANGED <<video, timestamps, dirOK, cap, releases, capPos, idx, k,
                   best_score, best_frame, best_time, saved_frames,
                   savedFrom, files, probes>>
    /\ UNCHANGED <<call, first, mainVars, orgVars, cleanVars>>

\* Line 227, the other branch: no probe decoded, the candidate is dropped.
DropCandidate ==
    /\ pc = "save"
    /\ ~ShouldSave(best_frame)
    /\ pc' = "loop"
    /\ UNCHANGED <<video, timestamps, dirOK, cap, releases, capPos, idx, k,
                   best_score, best_frame, best_time, saved_frames,
                   savedFrom, files, probes, outcome>>
    /\ UNCHANGED <<call, first, mainVars, orgVars, cleanVars>>

\* Lines 236-237: cap.release(); return saved_frames.
Return ==
    /\ pc = "loop"
    /\ idx = Len(timestamps)
    /\ cap' = "released"
    /\ releases' = releases + 1
    /\ pc' = "done"
    /\ outcome' = "returned"
    /\ UNCHANGED <<video, timestamps, dirOK, capPos, idx, k, best_score,
                   best_frame, best_time, saved_frames, savedFrom, files,
                   probes>>
    /\ UNCHANGED <<call, first, mainVars, orgVars, cleanVars>>

CaptureNext ==
    \/ NotOpened
    \/ Opened
    \/ BeginCandidate
    \/ CandidateRaises
    \/ Probe
    \/ SaveFrame
    \/ SaveRaises
    \/ DropCandidate
    \/ Return

\* The caller calls capture_best_frames again, on the same video and the
\* same candidates, with another output directory. The first call's list,
\* its choices and the content of its directory are kept aside. The second
\* call has its own locals: cv2.VideoCapture(str(video_path)) is a new
\* capture (line 192), the loop starts at the first candidate; its directory
\* holds nothing of the first call, and creating it succeeds or not. The
\* model's values of saved_frames, best_score, best_frame, best_time and k
\* stay: the call assigns each (lines 197, 204-206, 211) before it reads it.
SecondCall ==
    /\ pc \in {"done", "raised"}
    /\ call = 1
    /\ call' = 2
    /\ first' = << [saved_frames |-> saved_frames, savedFrom |-> savedFrom,
                    files |-> files, probes |-> probes,
                    outcome |-> outcome, idx |-> idx] >>
    /\ pc' = "start"
    /\ outcome' = "running"
    /\ cap' = "none"
    /\ releases' = 0
    /\ capPos' = 0
    /\ idx' = 0
    /\ savedFrom' = <<>>
    /\ probes' = <<>>
    /\ files' = {}
    /\ dirOK' \in BOOLEAN
    /\ UNCHANGED <<video, timestamps, k, best_score, best_frame, best_time,
                   saved_frames>>
    /\ UNCHANGED <<mainVars, orgVars, cleanVars>>

----------------------------------------------------------------------------
(* capture_best_frames: properties *)

\* The offsets (as indices into offsets) whose probe decodes, for target t
DecodedAt(t) == { j \in 1..Len(offsets) : Read(video, t + offsets[j]) # NoFrame }

ScoreAt(t, j) == Score(Read(video, t + offsets[j])[1])

\* j is a decoded probe with the maximum score, and the first such
IsFirstMax(t, j) ==
    /\ j \in DecodedAt(t)
    /\ \A j2 \in DecodedAt(t) : ScoreAt(t, j2) <= ScoreAt(t, j)
    /\ \A j2 \in DecodedAt(t) : ScoreAt(t, j2) = ScoreAt(t, j) => j <= j2

\* Candidate i has been fully handled without raising
Resolved(i) ==
    /\ i \in 1..Len(timestamps)
    /\ \/ i < idx
       \/ i = idx /\ pc \in {"loop", "done"}

Kept(i) == \E n \in 1..Len(savedFrom) : savedFrom[n].cand = i

Ended == pc \in {"done", "raised"}

\* C1: the saved frame of a candidate is a decoded probe of maximum score,
\* the one of smallest offset among those, best_time is target_time plus
\* that offset, and a frame that was written is the content of its file
\* until a later candidate writes the same path.
C1_BestFrameIsFirstMax ==
    \A n \in 1..Len(savedFrom) :
        LET s == savedFrom[n]
            t == TargetTime(timestamps[s.cand])
        IN  /\ \E j \in 1..Len(offsets) :
                   /\ IsFirstMax(t, j)
                   /\ s.best_time = t + offsets[j]
                   /\ s.frame = Read(video, t + offsets[j])
            /\ (s.wrote /\ \A m \in (n + 1)..Len(savedFrom) :
                               ~(savedFrom[m].path = s.path /\ savedFrom[m].wrote))
               => [path |-> s.path, frame |-> s.frame[1]] \in files

\* C1 witness: a finished call saved a frame for a candidate of which two
\* probes decoded with the same, maximal score, and a candidate whose best
\* probe is not the first one.
C1_Witness ==
    /\ pc = "done"
    /\ \E n \in 1..Len(savedFrom) :
           LET t == TargetTime(timestamps[savedFrom[n].cand])
           IN  \E j1, j2 \in DecodedAt(t) :
                   /\ j1 < j2
                   /\ ScoreAt(t, j1) = ScoreAt(t, j2)
                   /\ IsFirstMax(t, j1)
                   /\ j1 > 1
                   /\ 1 \in DecodedAt(t)

\* C2: at most one result per candidate, so the list never grows longer
\* than the candidates handled so far, nor than the candidate list.
C2_AtMostOnePerCandidate ==
    /\ Len(saved_frames) <= idx
    /\ Len(saved_frames) <= Len(timestamps)
    /\ \A i \in 1..Len(timestamps) :
           Cardinality({ n \in 1..Len(savedFrom) : savedFrom[n].cand = i }) <= 1

\* C2 witness: a call returned with one result per candidate, for the
\* longest list.
C2_Witness ==
    /\ pc = "done"
    /\ Len(timestamps) = MaxCands
    /\ Len(saved_frames) = Len(timestamps)

\* Candidate i was probed and its handling has ended: by a save or a drop,
\* or by the exception of line 229
Probed(i) ==
    \/ Resolved(i)
    \/ /\ i \in 1..Len(timestamps)
       /\ i = idx
       /\ pc = "raised"
       /\ ~ItemRaises(timestamps[i])

\* C3: a candidate that was probed has a result exactly when one of its
\* probes decodes; each probe's success and the chosen time depend on the
\* video and on the candidate's own target time alone; a candidate whose
\* probes all fail raises nothing.
C3_KeptIffDecoded ==
    /\ \A i \in 1..Len(timestamps) :
           Probed(i) =>
               LET t == TargetTime(timestamps[i])
               IN  /\ Kept(i) <=> DecodedAt(t) # {}
                   /\ \A n \in 1..Len(savedFrom) :
                          savedFrom[n].cand = i =>
                              \E j \in 1..Len(offsets) :
                                  /\ IsFirstMax(t, j)
                                  /\ savedFrom[n].best_time = t + offsets[j]
    /\ \A n \in 1..Len(probes) :
           probes[n].ret <=> (Read(video, probes[n].time) # NoFrame)
    /\ \A i \in 1..Len(timestamps) :
           (Probed(i) /\ DecodedAt(TargetTime(timestamps[i])) = {}) =>
               Resolved(i)

\* C4: the returned list is an order-preserving subsequence of the
\* candidates: its n-th path is the path saved for the n-th kept candidate,
\* and the kept candidates appear in increasing order.
C4_OrderPreserved ==
    /\ Len(saved_frames) = Len(savedFrom)
    /\ \A n \in 1..Len(savedFrom) :
           /\ n <= Len(saved_frames) => saved_frames[n] = savedFrom[n].path
           /\ \A m \in 1..(n - 1) : savedFrom[m].cand < savedFrom[n].cand

\* C4 witness: a call on three candidates returned exactly two results
\* with different paths: the first candidate was kept, the second, whose
\* probes all fall past the end of the video, was dropped, the third was
\* kept, and the results are those of candidate 1 then candidate 3.
C4_Witness ==
    /\ pc = "done"
    /\ Len(timestamps) = 3
    /\ Kept(1) /\ ~Kept(2) /\ Kept(3)
    /\ TargetTime(timestamps[2]) >= Len(video.frames)
    /\ Len(saved_frames) = 2
    /\ savedFrom[1].cand = 1
    /\ savedFrom[2].cand = 3
    /\ saved_frames[1] = savedFrom[1].path
    /\ saved_frames[2] = savedFrom[2].path
    /\ saved_frames[1] # saved_frames[2]

\* C5: when the path does not exist or the video does not open, the call
\* returns the empty list, raises nothing, probes nothing, writes nothing.
C5_NoVideoEmptyResult ==
    (~video.exists \/ ~video.decodable) =>
        /\ outcome # "raised"
        /\ pc \in {"start", "done"}
        /\ pc = "done" => outcome = "returned"
        /\ saved_frames = <<>>
        /\ probes = <<>>
        /\ files = {}
        /\ idx = 0

\* C5 witness: a call on a file that exists but does not open has returned,
\* with candidates to handle.
C5_Witness ==
    /\ pc = "done"
    /\ video.exists /\ ~video.decodable
    /\ Len(timestamps) > 0

\* C6: every call that opened the handle ends with the handle released,
\* exactly once.
C6_HandleReleasedOnEveryExit ==
    (Ended /\ cap # "none") => (cap = "released" /\ releases = 1)

\* C7: no exception of one candidate aborts the call: a call that got to its
\* loop ends by returning, with every candidate handled.
C7_CandidateFailureDoesNotAbort ==
    (Ended /\ cap # "none" /\ dirOK) =>
        (outcome = "returned" /\ idx = Len(timestamps)
         /\ \A i \in 1..Len(timestamps) : Resolved(i))

\* C8: every returned path names a file written during the call.
C8_ReturnedPathsWereWritten ==
    outcome = "returned" =>
        \A n \in 1..Len(saved_frames) :
            \E f \in files : f.path = saved_frames[n]

----------------------------------------------------------------------------
(* main: helpers *)

Bookmarks == 1..MaxBookmarks

\* if video_id and duration_sec > 0 and duration_sec < 600; a duration is
\* <<>> for None, <<d>> for the number d
DirectorMaxDuration == 600
EntersDirector(m) ==
    /\ m.vid
    /\ m.dur # <<>>
    /\ m.dur[1] > 0
    /\ m.dur[1] < DirectorMaxDuration

\* The same test raises TypeError at duration_sec > 0 when there is a video
\* id and the duration is None; without a video id `and` stops before it.
EntryTestRaises(m) == m.vid /\ m.dur = <<>>

\* meta['duration'] = info.get('duration', 0): None when yt-dlp has the key
\* without a value, 0 when it has no such key, a short video, a long one
Durations ==
    {<<>>, <<0>>, <<DirectorMaxDuration - 1>>, <<DirectorMaxDuration>>}

\* settings.MAX_ITEMS > 0 and processed_count >= settings.MAX_ITEMS
LimitReached_gt(limit, count) == limit > 0 /\ count > limit
LimitReached(limit, count) == limit > 0 /\ count >= limit

\* raindrop_client.get_candidate_bookmarks(collection_id=c): the video
\* bookmarks of collection c, in the order the service lists them
Candidates(place, c) ==
    LET in_c(b) == place[b] = c
    IN  SelectSeq([b \in Bookmarks |-> b], in_c)

\* [c for c in candidates if c['_id'] not in history]
Unprocessed_all(cands, hist) == cands
Unprocessed(cands, hist) ==
    LET is_new(b) == b \notin hist
    IN  SelectSeq(cands, is_new)

\* def save_summary(self, url, title, summary_html, tags=None, author=None,
\*                  public_url=None)
SaveSummaryParams ==
    {"url", "title", "summary_html", "tags", "author", "public_url"}
SaveSummaryRequired == {"url", "title", "summary_html"}

\* readwise_client.save_summary(url=, title=, summary_html=, tags=, author=,
\*                              image_url=)
SaveSummaryCall ==
    {"url", "title", "summary_html", "tags", "author", "image_url"}

\* Python binds a call given by keywords when every keyword is a parameter
\* of the function and every parameter without default is given; it raises
\* TypeError otherwise.
CallBinds_lenient(keywords, params, required) == required \subseteq keywords
CallBinds(keywords, params, required) ==
    keywords \subseteq params /\ required \subseteq keywords

\* list(set(existing_tags + ["summarized"]))
NewTags(existing) == existing \cup {"summarized"}

NoItem == [t |-> FALSE, a |-> FALSE, vid |-> FALSE, dur |-> <<0>>]

NoDirector ==
    [entered |-> FALSE, transcript |-> FALSE, analysedText |-> FALSE,
     analysedVideo |-> FALSE, download |-> FALSE, temp |-> FALSE,
     cues |-> 0, captured |-> FALSE, frames |-> 0, raised |-> FALSE]

----------------------------------------------------------------------------
(* main: one run *)

MainInit ==
    /\ DRY_RUN \in BOOLEAN
    /\ MAX_ITEMS \in 0..MaxLimit
    /\ r2_enabled \in BOOLEAN
    /\ readwise_token \in BOOLEAN
    /\ inColl \in [Bookmarks -> 0..MaxColls]
    /\ tagsOf = [b \in Bookmarks |-> IF b % 2 = 1 THEN {"video"} ELSE {}]
    /\ historyFile \in SUBSET Bookmarks
    /\ history = {}
    /\ mpc = "init"
    /\ ci = 0
    /\ collections = <<>>
    /\ new_candidates = <<>>
    /\ ii = 0
    /\ processed_count = 0
    /\ cur = NoItem
    /\ images_md = <<>>
    /\ images_html_block = <<>>
    /\ dirEv = NoDirector
    /\ verified = {}
    /\ downloaded = {}
    /\ summarized = {}
    /\ mdFiles = {}
    /\ readwiseDocs = {}
    /\ tagUpdates = {}
    /\ r2Deleted = FALSE

\* Lines 28-47: load_history, get_collections (which returns {} when the
\* request fails), the R2 cleanup, processed_count = 0.
Startup ==
    /\ mpc = "init"
    /\ history' = historyFile
    /\ \E ok \in BOOLEAN :
           collections' = IF ok THEN [c \in 1..MaxColls |-> c] ELSE <<>>
    /\ \E old \in BOOLEAN : r2Deleted' = (r2_enabled /\ old)
    /\ processed_count' = 0
    /\ mpc' = "coll"
    /\ UNCHANGED <<DRY_RUN, MAX_ITEMS, r2_enabled, readwise_token, inColl,
                   tagsOf, historyFile, ci, new_candidates, ii, cur,
                   images_md, images_html_block, dirEv, verified, downloaded,
                   summarized, mdFiles, readwiseDocs, tagUpdates>>
    /\ UNCHANGED <<capVars, orgVars, cleanVars>>

\* Line 49, the loop is over: main returns.
CollectionsDone ==
    /\ mpc = "coll"
    /\ ci = Len(collections)
    /\ mpc' = "done"
    /\ UNCHANGED <<DRY_RUN, MAX_ITEMS, r2_enabled, readwise_token, inColl,
                   tagsOf, historyFile, history, ci, collections,
                   new_candidates, ii, processed_count, cur, images_md,
                   images_html_block, dirEv, verified, downloaded,
                   summarized, mdFiles, readwiseDocs, tagUpdates, r2Deleted>>
    /\ UNCHANGED <<capVars, orgVars, cleanVars>>

\* Lines 49-53: the limit is reached before a collection: break.
CollectionLimit ==
    /\ mpc = "coll"
    /\ ci < Len(collections)
    /\ LimitReached(MAX_ITEMS, processed_count)
    /\ mpc' = "done"
    /\ UNCHANGED <<DRY_RUN, MAX_ITEMS, r2_enabled, readwise_token, inColl,
                   tagsOf, historyFile, history, ci, collections,
                   new_candidates, ii, processed_count, cur, images_md,
                   images_html_block, dirEv, verified, downloaded,
                   summarized, mdFiles, readwiseDocs, tagUpdates, r2Deleted>>
    /\ UNCHANGED <<capVars, orgVars, cleanVars>>

\* Lines 49-60: the next collection's candidates are fetched (an empty list
\* when the request fails) and those in history are left out.
FetchCollection ==
    /\ mpc = "coll"
    /\ ci < Len(collections)
    /\ ~LimitReached(MAX_ITEMS, processed_count)
    /\ ci' = ci + 1
    /\ \E ok \in BOOLEAN :
           new_candidates' =
               IF ok
               THEN Unprocessed(Candidates(inColl, collections[ci + 1]), history)
               ELSE <<>>
    /\ ii' = 0
    /\ mpc' = "item"
    /\ UNCHANGED <<DRY_RUN, MAX_ITEMS, r2_enabled, readwise_token, inColl,
                   tagsOf, historyFile, history, collections,
                   processed_count, cur, images_md, images_html_block, dirEv,
                   verified, downloaded, summarized, mdFiles, readwiseDocs,
                   tagUpdates, r2Deleted>>
    /\ UNCHANGED <<capVars, orgVars, cleanVars>>

\* Lines 62-66: the items of the collection are exhausted, or the limit is
\* reached: the inner loop ends.
ItemsDone ==
    /\ mpc = "item"
    /\ \/ ii = Len(new_candidates)
       \/ LimitReached(MAX_ITEMS, processed_count)
    /\ mpc' = "coll"
    /\ UNCHANGED <<DRY_RUN, MAX_ITEMS, r2_enabled, readwise_token, inColl,
                   tagsOf, historyFile, history, ci, collections,
                   new_candidates, ii, processed_count, cur, images_md,
                   images_html_block, dirEv, verified, downloaded,
                   summarized, mdFiles, readwiseDocs, tagUpdates, r2Deleted>>
    /\ UNCHANGED <<capVars, orgVars, cleanVars>>

\* Lines 62-80: the next item in a dry run: verify_url, count it when valid.
DryRunItem ==
    /\ mpc = "item"
    /\ ii < Len(new_candidates)
    /\ ~LimitReached(MAX_ITEMS, processed_count)
    /\ DRY_RUN
    /\ ii' = ii + 1
    /\ verified' = verified \cup {new_candidates[ii + 1]}
    /\ \E valid \in BOOLEAN :
           processed_count' = IF valid THEN processed_count + 1
                              ELSE processed_count
    /\ UNCHANGED <<DRY_RUN, MAX_ITEMS, r2_enabled, readwise_token, inColl,
                   tagsOf, historyFile, history, mpc, ci, collections,
                   new_candidates, cur, images_md, images_html_block, dirEv,
                   downloaded, summarized, mdFiles, readwiseDocs, tagUpdates,
                   r2Deleted>>
    /\ UNCHANGED <<capVars, orgVars, cleanVars>>

\* Lines 62-85: the next item in a real run: verify_url; skip it when the
\* URL is not a video yt-dlp supports.
VerifyItem ==
    /\ mpc = "item"
    /\ ii < Len(new_candidates)
    /\ ~LimitReached(MAX_ITEMS, processed_count)
    /\ ~DRY_RUN
    /\ ii' = ii + 1
    /\ verified' = verified \cup {new_candidates[ii + 1]}
    /\ \E valid \in BOOLEAN : mpc' = IF valid THEN "process" ELSE "item"
    /\ UNCHANGED <<DRY_RUN, MAX_ITEMS, r2_enabled, readwise_token, inColl,
                   tagsOf, historyFile, history, ci, collections,
                   new_candidates, processed_count, cur, images_md,
                   images_html_block, dirEv, downloaded, summarized, mdFiles,
                   readwiseDocs, tagUpdates, r2Deleted>>
    /\ UNCHANGED <<capVars, orgVars, cleanVars>>

\* Lines 87-97: video_processor.process (which returns None, None, {} when
\* the download fails); without transcript and audio the item is skipped;
\* summary = "" and images_md = "".
ProcessMedia ==
    /\ mpc = "process"
    /\ downloaded' = downloaded \cup {new_candidates[ii]}
    /\ \E t \in BOOLEAN, a \in BOOLEAN, v \in BOOLEAN, d \in Durations :
           IF ~t /\ ~a
           THEN /\ mpc' = "item"
                /\ UNCHANGED <<cur, images_md>>
           ELSE /\ mpc' = "director"
                /\ cur' = [t |-> t, a |-> a, vid |-> v, dur |-> d]
                /\ images_md' = <<>>
    /\ UNCHANGED <<DRY_RUN, MAX_ITEMS, r2_enabled, readwise_token, inColl,
                   tagsOf, historyFile, history, ci, collections,
                   new_candidates, ii, processed_count, images_html_block,
                   dirEv, verified, summarized, mdFiles, readwiseDocs,
                   tagUpdates, r2Deleted>>
    /\ UNCHANGED <<capVars, orgVars, cleanVars>>

\* Line 116-124, 129: download_video_temp is called when the transcript
\* analysis returned cues, or when there is no timestamped transcript.
ShouldDownload_always(raw, ncues) == TRUE
ShouldDownload(raw, ncues) == IF raw THEN ncues > 0 ELSE TRUE

\* Lines 119, 131-133: the cue list after the strategy: that of
\* analyze_visual_cues when a transcript exists, that of
\* analyze_visual_cues_from_video when the temp file exists, [] otherwise.
CuesFound(raw, temp, ncues) == IF raw \/ temp THEN ncues ELSE 0

\* Line 138: if visual_cues and temp_vid_path and temp_vid_path.exists()
ShouldCapture_cuesOnly(cues, temp) == cues > 0
ShouldCapture(cues, temp) == cues > 0 /\ temp

\* Lines 151-183: the image blocks after the loop over frames ran `done`
\* iterations to their end: <<>> for "" when frames is empty (the blocks
\* are not assigned), else the heading followed by `done` image lines.
ImageBlock(b, frames, done) ==
    IF frames > 0 THEN << [owner |-> b, n |-> done] >> ELSE <<>>

\* The number of image lines of a block
ImageCount(block) == IF block = <<>> THEN 0 ELSE block[1].n

\* Lines 101-106 and 298-300: the test of line 104 raises TypeError on a
\* duration of None, before the try of line 108: the except of line 298
\* logs and goes on to the next item; the bookmark was downloaded and is
\* neither summarized nor written.
DurationRaises ==
    /\ mpc = "director"
    /\ EntryTestRaises(cur)
    /\ mpc' = "item"
    /\ cur' = NoItem
    /\ dirEv' = NoDirector
    /\ UNCHANGED <<DRY_RUN, MAX_ITEMS, r2_enabled, readwise_token, inColl,
                   tagsOf, historyFile, history, ci, collections,
                   new_candidates, ii, processed_count, images_md,
                   images_html_block, verified, downloaded, summarized,
                   mdFiles, readwiseDocs, tagUpdates, r2Deleted>>
    /\ UNCHANGED <<capVars, orgVars, cleanVars>>

\* llm.py 97, 226: analyze_visual_cues and analyze_visual_cues_from_video
\* return json.loads(text) as it is: a list of cues when the LLM answers a
\* JSON array (and [] when anything raised), but also None, a number or a
\* boolean when the answer is that JSON value. "list" stands for a value
\* that has a length, "null" for a false value without one (None, 0,
\* false), "number" for a true value without one (5, true).
CueShapes == {"list", "null", "number"}

\* len(visual_cues) is defined (lines 123, 136); TypeError otherwise
HasLen(shape) == shape = "list"

\* if visual_cues (lines 121, 138)
IsTrue(shape, ncues) == IF shape = "list" THEN ncues > 0 ELSE shape = "number"

\* Lines 99-198: AI Director mode. The analysers and download_video_temp
\* catch their own exceptions (they return [] or None), and so does
\* upload_file (it returns None, and the local path is linked). Inside the
\* try of line 108 these can raise, and the except of line 196 catches them
\* and logs: len(visual_cues) at line 123 (before the download) and at line
\* 136 when the analyser returned a value without a length;
\* capture_best_frames; f_path.read_bytes() on a frame that is not on disk
\* and os.remove(f_path), with R2 enabled; os.remove(temp_vid_path) at line
\* 194, reached when nothing raised before it. images_md and
\* images_html_block are assigned before the loop over frames and grow by
\* one line at the end of each iteration: what was appended before an
\* exception stays. images_html_block is assigned only when frames were
\* captured, and is not reset for the next item.
Director ==
    /\ mpc = "director"
    /\ ~EntryTestRaises(cur)
    /\ IF ~EntersDirector(cur)
       THEN /\ dirEv' = NoDirector
            /\ UNCHANGED <<images_md, images_html_block>>
       ELSE \E raw \in BOOLEAN, shape \in CueShapes, dl \in BOOLEAN,
               capRaises \in BOOLEAN, nframes \in 0..MaxCues,
               lines \in 0..MaxCues, rmRaises \in BOOLEAN :
            \E ncues \in (IF HasLen(shape) THEN 0..MaxCues ELSE {0}) :
              LET \* the length of the analyser's answer, where it has one
                  count    == IF HasLen(shape) THEN ncues ELSE 0
                  \* line 123: len() of a true value without a length
                  raise123 == raw /\ IsTrue(shape, ncues) /\ ~HasLen(shape)
                  download == ~raise123 /\ ShouldDownload(raw, count)
                  temp     == download /\ dl
                  \* line 136: len() of what the analyser called returned
                  raise136 == ~raise123 /\ (raw \/ temp) /\ ~HasLen(shape)
                  cues     == CuesFound(raw, temp, count)
                  capture  == ~raise123 /\ ~raise136
                              /\ ShouldCapture(cues, temp)
                  \* len(frames): at most one per cue (capture_best_frames)
                  frames   == IF capture /\ ~capRaises /\ nframes <= cues
                              THEN nframes ELSE 0
                  \* the iterations of the loop over frames that reached
                  \* their end: all of them, or fewer when read_bytes or
                  \* os.remove raised (they run with R2 enabled only)
                  done     == IF lines <= frames /\ r2_enabled
                              THEN lines ELSE frames
                  early    == raise123 \/ raise136 \/ (capture /\ capRaises)
                              \/ done < frames
                  \* lines 193-194: os.remove(temp_vid_path)
                  rmRaised == ~early /\ temp /\ rmRaises
                  b        == new_candidates[ii]
              IN  /\ dirEv' =
                         [entered |-> TRUE, transcript |-> raw,
                          analysedText |-> raw,
                          analysedVideo |-> ~raw /\ temp,
                          download |-> download, temp |-> temp,
                          cues |-> cues, captured |-> capture,
                          frames |-> frames,
                          raised |-> early \/ rmRaised]
                  /\ images_md' = ImageBlock(b, frames, done)
                  /\ images_html_block' =
                         IF frames > 0
                         THEN ImageBlock(b, frames, done)
                         ELSE images_html_block
    /\ mpc' = "summarize"
    /\ UNCHANGED <<DRY_RUN, MAX_ITEMS, r2_enabled, readwise_token, inColl,
                   tagsOf, historyFile, history, ci, collections,
                   new_candidates, ii, processed_count, cur, verified,
                   downloaded, summarized, mdFiles, readwiseDocs, tagUpdates,
                   r2Deleted>>
    /\ UNCHANGED <<capVars, orgVars, cleanVars>>

\* Lines 201-204: llm.summarize_text or llm.process_audio; both re-raise the
\* LLM's exception, which the except of line 298 turns into a skip.
Summarize ==
    /\ mpc = "summarize"
    /\ \E ok \in BOOLEAN :
           IF ok
           THEN /\ summarized' = summarized \cup {new_candidates[ii]}
                /\ mpc' = "write"
                /\ UNCHANGED <<cur, dirEv>>
           ELSE /\ mpc' = "item"
                /\ cur' = NoItem
                /\ dirEv' = NoDirector
                /\ UNCHANGED summarized
    /\ UNCHANGED <<DRY_RUN, MAX_ITEMS, r2_enabled, readwise_token, inColl,
                   tagsOf, historyFile, history, ci, collections,
                   new_candidates, ii, processed_count, images_md,
                   images_html_block, verified, downloaded, mdFiles,
                   readwiseDocs, tagUpdates, r2Deleted>>
    /\ UNCHANGED <<capVars, orgVars, cleanVars>>

\* Lines 206-244: the title (generate_concise_title falls back to the
\* original title), the file name, and the Markdown file: header, images_md
\* when not empty, summary. open() raising OSError skips the item.
WriteMarkdown ==
    /\ mpc = "write"
    /\ \E ok \in BOOLEAN :
           IF ok
           THEN /\ mdFiles' = mdFiles \cup
                        {[id |-> new_candidates[ii], images |-> images_md]}
                /\ mpc' = "publish"
                /\ UNCHANGED <<cur, dirEv>>
           ELSE /\ mpc' = "item"
                /\ cur' = NoItem
                /\ dirEv' = NoDirector
                /\ UNCHANGED mdFiles
    /\ UNCHANGED <<DRY_RUN, MAX_ITEMS, r2_enabled, readwise_token, inColl,
                   tagsOf, historyFile, history, ci, collections,
                   new_candidates, ii, processed_count, images_md,
                   images_html_block, verified, downloaded, summarized,
                   readwiseDocs, tagUpdates, r2Deleted>>
    /\ UNCHANGED <<capVars, orgVars, cleanVars>>

\* Lines 246-300: the HTML body, readwise_client.save_summary, the tag
\* update, history, the counter. The call of save_summary passes image_url,
\* which is not a parameter of it: when the call does not bind, TypeError is
\* raised and the except of line 298 skips the rest. save_summary sends
\* nothing without a token and returns False when the request fails;
\* update_bookmark swallows a failed request.
Publish ==
    /\ mpc = "publish"
    /\ LET b == new_candidates[ii]
       IN  IF CallBinds(SaveSummaryCall, SaveSummaryParams, SaveSummaryRequired)
           THEN /\ \E sent \in BOOLEAN :
                       readwiseDocs' =
                           IF readwise_token /\ sent
                           THEN readwiseDocs \cup
                                    {[id |-> b, images |-> images_html_block]}
                           ELSE readwiseDocs
                /\ \E put \in BOOLEAN :
                       tagUpdates' =
                           IF put
                           THEN tagUpdates \cup
                                    {[id |-> b, tags |-> NewTags(tagsOf[b])]}
                           ELSE tagUpdates
                /\ history' = history \cup {b}
                /\ historyFile' = history \cup {b}
                /\ processed_count' = processed_count + 1
           ELSE UNCHANGED <<readwiseDocs, tagUpdates, history, historyFile,
                            processed_count>>
    /\ mpc' = "item"
    /\ cur' = NoItem
    /\ dirEv' = NoDirector
    /\ UNCHANGED <<DRY_RUN, MAX_ITEMS, r2_enabled, readwise_token, inColl,
                   tagsOf, ci, collections, new_candidates, ii, images_md,
                   images_html_block, verified, downloaded, summarized,
                   mdFiles, r2Deleted>>
    /\ UNCHANGED <<capVars, orgVars, cleanVars>>

MainNext ==
    \/ Startup
    \/ CollectionsDone
    \/ CollectionLimit
    \/ FetchCollection
    \/ ItemsDone
    \/ DryRunItem
    \/ VerifyItem
    \/ ProcessMedia
    \/ DurationRaises
    \/ Director
    \/ Summarize
    \/ WriteMarkdown
    \/ Publish

----------------------------------------------------------------------------
(* RaindropOrganizer: helpers *)

\* Characters outside ASCII are written by their code point: "U+FF12" is
\* the fullwidth digit two.
\*
\* The decimal digits (Unicode category Nd), by value 0..9: ASCII, and the
\* fullwidth, Arabic-Indic and Devanagari ones, which stand for the other
\* scripts.
AsciiDigits == <<"0", "1", "2", "3", "4", "5", "6", "7", "8", "9">>
FullwidthDigits ==
    <<"U+FF10", "U+FF11", "U+FF12", "U+FF13", "U+FF14", "U+FF15", "U+FF16",
      "U+FF17", "U+FF18", "U+FF19">>
ArabicIndicDigits ==
    <<"U+0660", "U+0661", "U+0662", "U+0663", "U+0664", "U+0665", "U+0666",
      "U+0667", "U+0668", "U+0669">>
DevanagariDigits ==
    <<"U+0966", "U+0967", "U+0968", "U+0969", "U+096A", "U+096B", "U+096C",
      "U+096D", "U+096E", "U+096F">>
DecimalRows ==
    {AsciiDigits, FullwidthDigits, ArabicIndicDigits, DevanagariDigits}

\* The characters int() converts
Decimals == UNION { {row[v] : v \in 1..10} : row \in DecimalRows }

\* The digits that are not decimal digits: superscripts and circled digits
OtherDigits ==
    {"U+00B2", "U+00B3", "U+00B9", "U+2070",
     "U+2074", "U+2075", "U+2076", "U+2077", "U+2078", "U+2079",
     "U+2460", "U+2461", "U+2462", "U+2463", "U+2464", "U+2465",
     "U+2466", "U+2467", "U+2468"}

\* str.isdigit
Digits == Decimals \cup OtherDigits

\* The value int() gives a decimal digit
DigitVal(c) ==
    CHOOSE v \in 0..9 : \E row \in DecimalRows : row[v + 1] = c

\* "".join([c for c in text if c.isdigit()])
RECURSIVE OnlyDigits(_)
OnlyDigits(s) ==
    IF s = <<>> THEN <<>>
    ELSE (IF Head(s) \in Digits THEN <<Head(s)>> ELSE <<>>) \o OnlyDigits(Tail(s))

\* int(text) succeeds on a non-empty string of digits when all of them are
\* decimal digits; it raises ValueError otherwise
IntParses(s) == \A n \in 1..Len(s) : s[n] \in Decimals

\* int(text), for a non-empty string of decimal digits
RECURSIVE ToInt(_)
ToInt(s) ==
    IF s = <<>> THEN 0
    ELSE 10 * ToInt(SubSeq(s, 1, Len(s) - 1)) + DigitVal(s[Len(s)])

\* GeminiProvider.classify_bookmark on the LLM's text: <<>> for None, else
\* <<cid>>. The ValueError of int() is caught at line 301: None.
ClassifyText(text) ==
    LET digits == OnlyDigits(text)
    IN  IF digits = <<>> THEN <<>>
        ELSE IF ~IntParses(digits) THEN <<>>
        ELSE IF ToInt(digits) = 0 THEN <<>>
        ELSE << ToInt(digits) >>

\* The texts the LLM answers with: an id, "0", no digit at all, an id with
\* other characters around it, an id no collection has, an id in fullwidth
\* digits, an id followed by a superscript
AnswerTexts ==
    { <<"1">>, <<"0">>, <<"n", "o">>, <<"#", "2", ".">>, <<"9">>, <<"1", "2">>,
      <<"U+FF12">>, <<"1", "U+00B2">> }

\* The methods class RaindropClient defines
RaindropClientMethods ==
    {"check_connection", "get_collections", "get_candidate_bookmarks",
     "_is_video_candidate", "update_bookmark"}

\* obj.name(...) raises AttributeError when the class has no such method
HasMethod(methods, name) == name \in methods

\* per_page=10
OrganizerPerPage == 10

\* not (target_cid is None) and target_cid in collections
Classified_notNone(target_cid, cols) == target_cid # <<>>
Classified(target_cid, cols) ==
    IF target_cid = <<>> THEN FALSE ELSE target_cid[1] \in cols

\* get_candidate_bookmarks(collection_id=-1, per_page=10): the first
\* per_page bookmarks of Unsorted, of which the video candidates are kept
UnsortedCandidates(isVideo) ==
    LET page == [b \in 1..(IF MaxUnsorted < OrganizerPerPage
                          THEN MaxUnsorted ELSE OrganizerPerPage) |-> b]
        is_video(b) == isVideo[b]
    IN  SelectSeq(page, is_video)

----------------------------------------------------------------------------
(* RaindropOrganizer.run *)

OrgInit ==
    /\ unsortedVideo \in [1..MaxUnsorted -> BOOLEAN]
    /\ opc = "start"
    /\ orgColls = {}
    /\ unsorted_items = <<>>
    /\ oi = 0
    /\ answers = <<>>
    /\ moveCalls = {}
    /\ moves = {}

\* Lines 17-35: the collections, then the Unsorted items; run returns when
\* either is empty (a failed request gives an empty result).
OrgStart ==
    /\ opc = "start"
    /\ \E colsOK \in BOOLEAN, itemsOK \in BOOLEAN :
           LET cols  == IF colsOK THEN 1..MaxColls ELSE {}
               items == IF cols # {} /\ itemsOK
                        THEN UnsortedCandidates(unsortedVideo) ELSE <<>>
           IN  /\ orgColls' = cols
               /\ unsorted_items' = items
               /\ opc' = IF cols = {} \/ items = <<>> THEN "done" ELSE "items"
    /\ UNCHANGED <<unsortedVideo, oi, answers, moveCalls, moves>>
    /\ UNCHANGED <<capVars, mainVars, cleanVars>>

\* Lines 38-63: the next item; classify_bookmark returns None (no digit, 0,
\* or the LLM call failed) or an id that is not a fetched collection: skip.
OrgSkip ==
    /\ opc = "items"
    /\ oi < Len(unsorted_items)
    /\ \E failed \in BOOLEAN, text \in AnswerTexts :
           LET target_cid == IF failed THEN <<>> ELSE ClassifyText(text)
           IN  /\ ~Classified(target_cid, orgColls)
               /\ answers' = Append(answers,
                      [id |-> unsorted_items[oi + 1], cid |-> target_cid])
    /\ oi' = oi + 1
    /\ UNCHANGED <<unsortedVideo, opc, orgColls, unsorted_items, moveCalls,
                   moves>>
    /\ UNCHANGED <<capVars, mainVars, cleanVars>>

\* Lines 38-69: the next item, classified into a fetched collection, in a
\* dry run: only logged.
OrgDryRun ==
    /\ opc = "items"
    /\ oi < Len(unsorted_items)
    /\ DRY_RUN
    /\ \E text \in AnswerTexts :
           LET target_cid == ClassifyText(text)
           IN  /\ Classified(target_cid, orgColls)
               /\ answers' = Append(answers,
                      [id |-> unsorted_items[oi + 1], cid |-> target_cid])
    /\ oi' = oi + 1
    /\ UNCHANGED <<unsortedVideo, opc, orgColls, unsorted_items, moveCalls,
                   moves>>
    /\ UNCHANGED <<capVars, mainVars, cleanVars>>

\* Lines 38-75: the next item, classified into a fetched collection, in a
\* real run: self.raindrop.move_bookmark(r_id, target_cid). RaindropClient
\* defines no move_bookmark: the call raises AttributeError, which the
\* except of line 43 logs before the loop goes on.
OrgMove ==
    /\ opc = "items"
    /\ oi < Len(unsorted_items)
    /\ ~DRY_RUN
    /\ \E text \in AnswerTexts :
           LET target_cid == ClassifyText(text)
           IN  /\ Classified(target_cid, orgColls)
               /\ answers' = Append(answers,
                      [id |-> unsorted_items[oi + 1], cid |-> target_cid])
               /\ moveCalls' = moveCalls \cup
                      {[id |-> unsorted_items[oi + 1], cid |-> target_cid[1]]}
               /\ IF HasMethod(RaindropClientMethods, "move_bookmark")
                  THEN \E success \in BOOLEAN :
                           moves' = IF success
                                    THEN moves \cup
                                         {[id |-> unsorted_items[oi + 1],
                                           cid |-> target_cid[1]]}
                                    ELSE moves
                  ELSE UNCHANGED moves
    /\ oi' = oi + 1
    /\ UNCHANGED <<unsortedVideo, opc, orgColls, unsorted_items>>
    /\ UNCHANGED <<capVars, mainVars, cleanVars>>

\* Line 38, the loop is over: run returns.
OrgDone ==
    /\ opc = "items"
    /\ oi = Len(unsorted_items)
    /\ opc' = "done"
    /\ UNCHANGED <<unsortedVideo, orgColls, unsorted_items, oi, answers,
                   moveCalls, moves>>
    /\ UNCHANGED <<capVars, mainVars, cleanVars>>

OrgNext ==
    \/ OrgStart
    \/ OrgSkip
    \/ OrgDryRun
    \/ OrgMove
    \/ OrgDone

----------------------------------------------------------------------------
(* R2Storage.cleanup_old_files: helpers *)

\* for i in range(0, len(objects_to_delete), 1000); [i:i+1000]
DeleteBatch == 1000

\* An object of the bucket is its LastModified compared with cutoff_date:
\* -1 earlier, 0 the same instant, 1 later. Its key is its place in the
\* listing, <<page, position>>.
Ages == {-1, 0, 1}

\* The pages of the listing tried: one without 'Contents', one with an
\* object of each age, and a full page of old objects.
NoContentsPage == [has_contents |-> FALSE, objs |-> <<>>]
MixedPage == [has_contents |-> TRUE, objs |-> <<-1, 0, 1, -1>>]
FullPage == [has_contents |-> TRUE, objs |-> [i \in 1..DeleteBatch |-> -1]]
PageShapes == {NoContentsPage, MixedPage, FullPage}

Buckets == UNION { [1..n -> PageShapes] : n \in 0..MaxPages }

\* if obj['LastModified'] < cutoff_date
IsOld_orEqual(age) == age <= 0
IsOld(age) == age < 0

\* Lines 88-93: the keys one page adds to objects_to_delete
OldKeysOfPage(page, p) ==
    IF ~page.has_contents THEN <<>>
    ELSE LET keys == [i \in 1..Len(page.objs) |-> <<p, i>>]
             old(key) == IsOld(page.objs[key[2]])
         IN  SelectSeq(keys, old)

\* batch = objects_to_delete[i:i+1000]
Batch(objs, i) ==
    SubSeq(objs, i + 1,
           IF i + DeleteBatch < Len(objs) THEN i + DeleteBatch ELSE Len(objs))

----------------------------------------------------------------------------
(* R2Storage.cleanup_old_files(retention_days) *)

CleanInit ==
    /\ bucket \in Buckets
    /\ enabled \in BOOLEAN
    /\ cpc = "start"
    /\ pg = 0
    /\ objects_to_delete = <<>>
    /\ bi = 0
    /\ deleteRequests = <<>>
    /\ storageFailed = FALSE
    /\ cleanupOutcome = "running"

\* Lines 72-73: storage is not enabled: return.
CleanDisabled ==
    /\ cpc = "start"
    /\ ~enabled
    /\ cpc' = "done"
    /\ cleanupOutcome' = "returned"
    /\ UNCHANGED <<bucket, enabled, pg, objects_to_delete, bi,
                   deleteRequests, storageFailed>>
    /\ UNCHANGED <<capVars, mainVars, orgVars>>

\* Lines 75-85: the cutoff, the paginator, objects_to_delete = []. An
\* exception (get_paginator, paginate) goes to the except of line 109,
\* which logs it; the method then returns.
CleanBegin ==
    /\ cpc = "start"
    /\ enabled
    /\ \E ok \in BOOLEAN :
           IF ok
           THEN /\ cpc' = "list"
                /\ objects_to_delete' = <<>>
                /\ UNCHANGED <<storageFailed, cleanupOutcome>>
           ELSE /\ cpc' = "done"
                /\ storageFailed' = TRUE
                /\ cleanupOutcome' = "returned"
                /\ UNCHANGED objects_to_delete
    /\ UNCHANGED <<bucket, enabled, pg, bi, deleteRequests>>
    /\ UNCHANGED <<capVars, mainVars, orgVars>>

\* Lines 87-93: the iterator gives the next page, whose old objects are
\* appended, or the request for it raises.
ListPage ==
    /\ cpc = "list"
    /\ pg < Len(bucket)
    /\ \E ok \in BOOLEAN :
           IF ok
           THEN /\ pg' = pg + 1
                /\ objects_to_delete' =
                       objects_to_delete \o OldKeysOfPage(bucket[pg + 1], pg + 1)
                /\ UNCHANGED <<cpc, storageFailed, cleanupOutcome>>
           ELSE /\ cpc' = "done"
                /\ storageFailed' = TRUE
                /\ cleanupOutcome' = "returned"
                /\ UNCHANGED <<pg, objects_to_delete>>
    /\ UNCHANGED <<bucket, enabled, bi, deleteRequests>>
    /\ UNCHANGED <<capVars, mainVars, orgVars>>

\* Lines 87, 95-107: the pages are exhausted; with nothing to delete the
\* method logs and returns, else the loop over batches starts.
ListDone ==
    /\ cpc = "list"
    /\ pg = Len(bucket)
    /\ IF objects_to_delete # <<>>
       THEN /\ cpc' = "delete"
            /\ bi' = 0
            /\ UNCHANGED cleanupOutcome
       ELSE /\ cpc' = "done"
            /\ cleanupOutcome' = "returned"
            /\ UNCHANGED bi
    /\ UNCHANGED <<bucket, enabled, pg, objects_to_delete, deleteRequests,
                   storageFailed>>
    /\ UNCHANGED <<capVars, mainVars, orgVars>>

\* Lines 99-105: the next batch is given to delete_objects, which returns
\* or raises; an exception ends the method at the except of line 109.
DeleteNextBatch ==
    /\ cpc = "delete"
    /\ bi < Len(objects_to_delete)
    /\ deleteRequests' = Append(deleteRequests, Batch(objects_to_delete, bi))
    /\ \E ok \in BOOLEAN :
           IF ok
           THEN /\ bi' = bi + DeleteBatch
                /\ UNCHANGED <<cpc, storageFailed, cleanupOutcome>>
           ELSE /\ cpc' = "done"
                /\ storageFailed' = TRUE
                /\ cleanupOutcome' = "returned"
                /\ UNCHANGED bi
    /\ UNCHANGED <<bucket, enabled, pg, objects_to_delete>>
    /\ UNCHANGED <<capVars, mainVars, orgVars>>

\* Line 99, the range is exhausted: the method returns.
DeleteDone ==
    /\ cpc = "delete"
    /\ bi >= Len(objects_to_delete)
    /\ cpc' = "done"
    /\ cleanupOutcome' = "returned"
    /\ UNCHANGED <<bucket, enabled, pg, objects_to_delete, bi,
                   deleteRequests, storageFailed>>
    /\ UNCHANGED <<capVars, mainVars, orgVars>>

CleanNext ==
    \/ CleanDisabled
    \/ CleanBegin
    \/ ListPage
    \/ ListDone
    \/ DeleteNextBatch
    \/ DeleteDone

----------------------------------------------------------------------------
(* The specifications: each runs one entry point; the state of the others
   stays as it is before they are called. *)

CaptureIdle ==
    /\ video = [exists |-> FALSE, decodable |-> FALSE, frames |-> <<>>]
    /\ timestamps = <<>>
    /\ dirOK = TRUE
    /\ pc = "idle"
    /\ cap = "none"
    /\ releases = 0
    /\ capPos = 0
    /\ idx = 0
    /\ k = 1
    /\ best_score = -1
    /\ best_frame = NoFrame
    /\ best_time = 0
    /\ saved_frames = <<>>
    /\ savedFrom = <<>>
    /\ files = {}
    /\ probes = <<>>
    /\ outcome = "running"
    /\ call = 1
    /\ first = <<>>

MainIdle ==
    /\ MAX_ITEMS = 0
    /\ r2_enabled = FALSE
    /\ readwise_token = FALSE
    /\ inColl = [b \in Bookmarks |-> 0]
    /\ tagsOf = [b \in Bookmarks |-> {}]
    /\ historyFile = {}
    /\ history = {}
    /\ mpc = "idle"
    /\ ci = 0
    /\ collections = <<>>
    /\ new_candidates = <<>>
    /\ ii = 0
    /\ processed_count = 0
    /\ cur = NoItem
    /\ images_md = <<>>
    /\ images_html_block = <<>>
    /\ dirEv = NoDirector
    /\ verified = {}
    /\ downloaded = {}
    /\ summarized = {}
    /\ mdFiles = {}
    /\ readwiseDocs = {}
    /\ tagUpdates = {}
    /\ r2Deleted = FALSE

OrgIdle ==
    /\ unsortedVideo = [b \in 1..MaxUnsorted |-> FALSE]
    /\ opc = "idle"
    /\ orgColls = {}
    /\ unsorted_items = <<>>
    /\ oi = 0
    /\ answers = <<>>
    /\ moveCalls = {}
    /\ moves = {}

CleanIdle ==
    /\ bucket = <<>>
    /\ enabled = FALSE
    /\ cpc = "idle"
    /\ pg = 0
    /\ objects_to_delete = <<>>
    /\ bi = 0
    /\ deleteRequests = <<>>
    /\ storageFailed = FALSE
    /\ cleanupOutcome = "running"

\* VideoProcessor.capture_best_frames, called once
Init == CaptureInit /\ DRY_RUN = FALSE /\ MainIdle /\ OrgIdle /\ CleanIdle

Next == CaptureNext

Spec == Init /\ [][Next]_vars

\* VideoProcessor.capture_best_frames, called twice on the same video and
\* candidates
InitTwice == Init

NextTwice ==
    \/ NotOpened
    \/ Opened
    \/ BeginCandidate
    \/ CandidateRaises
    \/ Probe
    \/ SaveFrame
    \/ SaveRaises
    \/ DropCandidate
    \/ Return
    \/ SecondCall

SpecTwice == InitTwice /\ [][NextTwice]_vars

\* main, run once
InitMain == MainInit /\ CaptureIdle /\ OrgIdle /\ CleanIdle

NextMain == MainNext

SpecMain == InitMain /\ [][NextMain]_vars

\* RaindropOrganizer.run, run once
InitOrganizer ==
    OrgInit /\ DRY_RUN \in BOOLEAN /\ CaptureIdle /\ MainIdle /\ CleanIdle

NextOrganizer == OrgNext

SpecOrganizer == InitOrganizer /\ [][NextOrganizer]_vars

\* R2Storage.cleanup_old_files, called once
InitCleanup ==
    CleanInit /\ DRY_RUN = FALSE /\ CaptureIdle /\ MainIdle /\ OrgIdle

NextCleanup == CleanNext

SpecCleanup == InitCleanup /\ [][NextCleanup]_vars

----------------------------------------------------------------------------
(* main and the Organizer: properties *)

\* C9: at the end of a real run, every bookmark that was verified,
\* downloaded and summarized and whose Markdown file was written has its
\* summary at Readwise, a tag update with its tags plus "summarized", and
\* its id in the history file.
C9_SummarizedIsPublished ==
    (mpc = "done" /\ ~DRY_RUN) =>
        \A m \in mdFiles :
            /\ m.id \in historyFile
            /\ \E d \in readwiseDocs : d.id = m.id
            /\ [id |-> m.id, tags |-> NewTags(tagsOf[m.id])] \in tagUpdates

\* C10: at the end of a real run of the Organizer, every item the LLM
\* classified into one of the fetched collections has a move request for
\* that item and that collection at the service.
C10_ClassifiedIsMoved ==
    (opc = "done" /\ ~DRY_RUN) =>
        \A n \in 1..Len(answers) :
            Classified(answers[n].cid, orgColls) =>
                [id |-> answers[n].id, cid |-> answers[n].cid[1]] \in moves

\* C11: a failure inside AI Director mode (cue analysis, temp download,
\* frame capture, upload, local deletion) does not fail the bookmark: main
\* goes on to summarize it and write its Markdown file, and the images
\* block of that file has no image when the extraction failed.
C11_HighlightFailureIsolated ==
    /\ dirEv.entered => mpc \in {"summarize", "write", "publish"}
    /\ (dirEv.entered /\ dirEv.raised) => ImageCount(images_md) = 0
    /\ (mpc = "publish" /\ dirEv.entered /\ dirEv.raised) =>
           \E m \in mdFiles :
               m.id = new_candidates[ii] /\ ImageCount(m.images) = 0

\* The characters of a sequence of strings, one after the other
RECURSIVE Concat(_)
Concat(words) ==
    IF words = <<>> THEN <<>> ELSE Head(words) \o Concat(Tail(words))

\* C12: each saved frame is written under the name "<n>_<r>.jpg": n is
\* best_time truncated to whole seconds, r is what is left of the
\* candidate's reason when the characters that are not alphanumeric are
\* taken out (for a reason that is a list, its elements that are not
\* alphanumeric), cut to its first 20 characters; r has alphanumeric
\* characters only and at most 20 of them; a write that succeeded put the
\* file there.
C12_FrameFileName ==
    \A n \in 1..Len(savedFrom) :
        LET s        == savedFrom[n]
            parts    == ReasonParts(timestamps[s.cand])
            isalnum(c) == c # <<>> /\ \A j \in 1..Len(c) : c[j] \in Alnum
            kept     == Concat(SelectSeq(parts, isalnum))
            r        == s.path.name
        IN  /\ 2 * s.path.sec <= s.best_time
            /\ s.best_time < 2 * s.path.sec + 2
            /\ Len(r) <= ReasonCut
            /\ \A j \in 1..Len(r) : r[j] \in Alnum
            /\ Len(r) = IF Len(kept) < ReasonCut THEN Len(kept) ELSE ReasonCut
            /\ \A j \in 1..Len(r) : r[j] = kept[j]
            /\ s.wrote => \E f \in files : f.path = s.path

\* C12 witness: a call returned a frame chosen at a time that is not a
\* whole second, for a reason that lost a character that is not
\* alphanumeric and was then cut, and wrote it.
C12_Witness ==
    /\ pc = "done"
    /\ \E n \in 1..Len(savedFrom) :
           LET s      == savedFrom[n]
               reason == ReasonOf(timestamps[s.cand])
           IN  /\ ReasonIsStr(timestamps[s.cand])
               /\ s.best_time % 2 = 1
               /\ \E j \in 1..ReasonCut : reason[j] \notin Alnum
               /\ Len(OnlyAlnum(Chars(reason))) > ReasonCut
               /\ Len(s.path.name) = ReasonCut
               /\ s.wrote

\* C13: the seek-and-decode attempts of a call are, in order, those of its
\* candidates in list order, three for each: at target_time, at
\* target_time + 1.0 and at target_time + 1.5 seconds (0, 2 and 3 half
\* seconds), each made once whether it decodes or not; a candidate's three
\* attempts are over before the next candidate's first, and a call that
\* returns has made three attempts for every candidate.
C13_ProbeOrder ==
    /\ \A n \in 1..Len(probes) :
           LET i == ((n - 1) \div 3) + 1
               j == ((n - 1) % 3) + 1
           IN  /\ probes[n].cand = i
               /\ i <= idx
               /\ probes[n].time =
                      TargetTime(timestamps[i]) + <<0, 2, 3>>[j]
    /\ \A i \in 1..Len(timestamps) :
           Resolved(i) =>
               Cardinality({ n \in 1..Len(probes) : probes[n].cand = i }) = 3
    /\ (outcome = "returned" /\ cap # "none") =>
           Len(probes) = 3 * Len(timestamps)

\* C13 witness: a call on two candidates returned after six attempts, of
\* which one of the first candidate failed and the next one decoded.
C13_Witness ==
    /\ pc = "done"
    /\ Len(timestamps) = 2
    /\ Len(probes) = 6
    /\ \E n \in 1..2 : ~probes[n].ret /\ probes[n + 1].ret

\* C14: a second call on the same video and candidates, with another
\* output directory, chooses for every candidate the probe and the frame
\* the first call chose and gives the same file names in the same order;
\* the files both calls wrote have the same content; the second call makes
\* the same attempts with the same results; when the first call raised on
\* a candidate, the second raises on the same one with the same list.
C14_SecondCallAgrees ==
    call = 2 =>
        LET f == first[1]
        IN  /\ \A x \in files, y \in f.files :
                   x.path = y.path => x.frame = y.frame
            /\ (f.outcome = "returned" \/ f.idx >= 1) =>
                   /\ Len(savedFrom) <= Len(f.savedFrom)
                   /\ \A n \in 1..Len(savedFrom) :
                          /\ savedFrom[n].cand = f.savedFrom[n].cand
                          /\ savedFrom[n].best_time = f.savedFrom[n].best_time
                          /\ savedFrom[n].frame = f.savedFrom[n].frame
                          /\ savedFrom[n].path = f.savedFrom[n].path
                   /\ Len(probes) <= Len(f.probes)
                   /\ \A n \in 1..Len(probes) : probes[n] = f.probes[n]
            /\ (outcome = "returned" /\ f.outcome = "returned") =>
                   /\ saved_frames = f.saved_frames
                   /\ Len(savedFrom) = Len(f.savedFrom)
                   /\ probes = f.probes
            /\ (Ended /\ cap # "none" /\ dirOK /\ f.outcome = "raised"
                      /\ f.idx >= 1) =>
                   /\ outcome = "raised"
                   /\ idx = f.idx
                   /\ saved_frames = f.saved_frames

\* C14 witness: both calls returned two names, and each wrote a file that
\* the other wrote too.
C14_Witness ==
    /\ call = 2
    /\ pc = "done"
    /\ first[1].outcome = "returned"
    /\ Len(saved_frames) = 2
    /\ \E x \in files, y \in first[1].files : x.path = y.path

\* C15: each element of the result carries the chosen best_time, the file
\* path, and a reason equal to the reason of its candidate. An element is
\* what saved_frames.append(str(out_path)) put there: the time it carries is
\* the seconds of the file name, the reason it carries is the text of the
\* file name.
C15_ResultCarriesReason ==
    /\ Len(saved_frames) = Len(savedFrom)
    /\ \A n \in 1..Len(saved_frames) :
           LET e == saved_frames[n]
               s == savedFrom[n]
           IN  /\ e = s.path
               /\ 2 * e.sec = s.best_time
               /\ ReasonIsStr(timestamps[s.cand])
               /\ e.name = ReasonOf(timestamps[s.cand])

\* C15 amended: each element of the result is the path the frame of its
\* candidate was saved under, and nothing else: of best_time it keeps the
\* whole seconds, and of the reason the alphanumeric characters, 20 at
\* most, so that the reason itself is there only when it is alphanumeric
\* and no longer than 20 characters.
C15_ResultIsPathOfCandidate ==
    /\ Len(saved_frames) = Len(savedFrom)
    /\ \A n \in 1..Len(saved_frames) :
           LET e      == saved_frames[n]
               s      == savedFrom[n]
               reason == ReasonOf(timestamps[s.cand])
               text   == ReasonIsStr(timestamps[s.cand])
               clean  == /\ text
                         /\ \A j \in 1..Len(reason) : reason[j] \in Alnum
                         /\ Len(reason) <= ReasonCut
           IN  /\ e = s.path
               /\ DOMAIN e = {"sec", "name"}
               /\ s.best_time % 2 = 0 => 2 * e.sec = s.best_time
               /\ s.best_time % 2 = 1 => 2 * e.sec = s.best_time - 1
               /\ clean => e.name = reason
               /\ (text /\ ~clean) => Len(e.name) < Len(reason)

\* C15 witness: a call returned two elements: one whose candidate has an
\* alphanumeric reason, one chosen at a time that is not a whole second
\* for a reason that is not alphanumeric.
C15_Witness ==
    /\ pc = "done"
    /\ Len(saved_frames) = 2
    /\ \E n, m \in 1..2 :
           /\ ReasonIsStr(timestamps[savedFrom[n].cand])
           /\ ReasonIsStr(timestamps[savedFrom[m].cand])
           /\ saved_frames[n].name = ReasonOf(timestamps[savedFrom[n].cand])
           /\ saved_frames[m].name # ReasonOf(timestamps[savedFrom[m].cand])
           /\ savedFrom[m].best_time % 2 = 1

\* C16: with MAX_ITEMS > 0 the processed count never exceeds MAX_ITEMS, and
\* from the moment it has reached MAX_ITEMS no step verifies, downloads or
\* summarizes a bookmark or fetches a collection.
C16_LimitRespected ==
    /\ [](MAX_ITEMS > 0 => processed_count <= MAX_ITEMS)
    /\ [][ (MAX_ITEMS > 0 /\ processed_count >= MAX_ITEMS) =>
               /\ verified' = verified
               /\ downloaded' = downloaded
               /\ summarized' = summarized
               /\ ci' = ci
               /\ processed_count' = processed_count ]_vars

\* C16 witness: a dry run ended with the count at MAX_ITEMS after the first
\* of its collections, in which it verified a bookmark, leaving an
\* unprocessed video bookmark of the next collection unverified.
C16_Witness ==
    /\ mpc = "done"
    /\ MAX_ITEMS > 0
    /\ processed_count = MAX_ITEMS
    /\ ci = 1
    /\ ci < Len(collections)
    /\ \E b1, b2 \in Bookmarks :
           /\ inColl[b1] = collections[1]
           /\ b1 \in verified
           /\ inColl[b2] = collections[2]
           /\ b2 \notin history \cup verified

\* C17: after the history is loaded, a step changes the history, the
\* history file or (in a real run) the processed count only at the end of
\* an iteration (line 287), for the bookmark of that iteration alone, all
\* three together, when that bookmark was summarized, its Markdown file was
\* written, and the calls of save_summary and update_bookmark are calls
\* that do not raise; so a bookmark that was skipped, or whose processing
\* raised before line 287, is not added and is not counted.
C17_HistoryOnlyAfterPublish ==
    [][ mpc # "init" =>
          /\ (history' # history \/ historyFile' # historyFile
                 \/ (~DRY_RUN /\ processed_count' # processed_count)) =>
                 /\ mpc = "publish"
                 /\ history' = history \cup {new_candidates[ii]}
                 /\ historyFile' = history'
                 /\ processed_count' = processed_count + 1
                 /\ new_candidates[ii] \in summarized
                 /\ \E m \in mdFiles : m.id = new_candidates[ii]
                 /\ SaveSummaryCall \subseteq SaveSummaryParams
                 /\ SaveSummaryRequired \subseteq SaveSummaryCall
                 /\ "update_bookmark" \in RaindropClientMethods
          /\ mpc \in {"item", "process", "director", "summarize", "write"} =>
                 /\ history' = history
                 /\ historyFile' = historyFile
                 /\ ~DRY_RUN => processed_count' = processed_count ]_vars

\* C17 witness: a real run ended in which one bookmark failed verification
\* and another was summarized and written, and then raised at
\* save_summary: neither is in the history and none was counted.
C17_Witness ==
    /\ mpc = "done"
    /\ ~DRY_RUN
    /\ \E b1, b2 \in Bookmarks :
           /\ b1 \in verified \ downloaded
           /\ b2 \in summarized
           /\ \E m \in mdFiles : m.id = b2
           /\ {b1, b2} \cap (history \cup historyFile) = {}
    /\ processed_count = 0

\* C18: every call of move_bookmark the Organizer makes, and every move the
\* service receives, is for an item of the run and the collection its
\* answer denotes, which is one of the collections fetched at the start;
\* an item whose answer is None (no digit, 0, or a failed call) or an id
\* that is not among them gets no call and no move.
C18_MovesOnlyToFetched ==
    /\ \A m \in moveCalls \cup moves :
           /\ m.cid \in orgColls
           /\ \E n \in 1..Len(answers) :
                  answers[n].id = m.id /\ answers[n].cid = << m.cid >>
    /\ \A n \in 1..Len(answers) :
           (\/ answers[n].cid = <<>>
            \/ \A c \in orgColls : answers[n].cid # << c >>) =>
               \A m \in moveCalls \cup moves : m.id # answers[n].id

\* C18 witness: a real run ended after an item whose answer denotes an id
\* that no fetched collection has, and an item for which move_bookmark was
\* called.
C18_Witness ==
    /\ opc = "done"
    /\ ~DRY_RUN
    /\ \E n \in 1..Len(answers) :
           /\ answers[n].cid # <<>>
           /\ \A c \in orgColls : answers[n].cid # << c >>
    /\ moveCalls # {}

\* C19: AI Director mode is entered only for an item with a video id and a
\* duration over 0 and under 600 seconds; with a timestamped transcript
\* the transcript is analysed and the video is downloaded only when that
\* gave a cue; without one the video is downloaded first and analysed
\* only when the download left a file; frames are captured only with a
\* cue and the downloaded file.
C19_DirectorConditions ==
    /\ dirEv.entered =>
           /\ mpc \in {"summarize", "write", "publish"}
           /\ cur.vid
           /\ cur.dur # <<>>
           /\ cur.dur[1] > 0
           /\ cur.dur[1] < 600
    /\ (dirEv.entered /\ dirEv.transcript) =>
           /\ dirEv.analysedText
           /\ ~dirEv.analysedVideo
           /\ dirEv.download => dirEv.cues > 0
    /\ (dirEv.entered /\ ~dirEv.transcript) =>
           /\ ~dirEv.analysedText
           /\ dirEv.download
           /\ dirEv.analysedVideo => dirEv.temp
           /\ dirEv.cues > 0 => dirEv.analysedVideo
    /\ dirEv.temp => dirEv.download
    /\ dirEv.captured => (dirEv.cues > 0 /\ dirEv.temp)
    /\ dirEv.frames > 0 => dirEv.captured
    /\ (dirEv.download \/ dirEv.analysedText \/ dirEv.analysedVideo
           \/ dirEv.captured) => dirEv.entered

\* C19 witness: a video of 599 seconds with a timestamped transcript in
\* which the analysis found cues was downloaded and frames were captured.
C19_Witness ==
    /\ mpc = "summarize"
    /\ dirEv.entered
    /\ cur.dur = <<DirectorMaxDuration - 1>>
    /\ dirEv.transcript
    /\ dirEv.cues > 0
    /\ dirEv.temp
    /\ dirEv.captured
    /\ dirEv.frames > 0

\* The keys of the delete requests made, in order
RECURSIVE RequestedKeys(_)
RequestedKeys(reqs) ==
    IF reqs = <<>> THEN <<>> ELSE Head(reqs) \o RequestedKeys(Tail(reqs))

\* The objects of the first n pages whose LastModified is earlier than the
\* cutoff
OldObjects(n) ==
    UNION { { <<p, i>> : i \in { j \in 1..Len(bucket[p].objs) :
                                     bucket[p].objs[j] < 0 } } :
            p \in { q \in 1..n : bucket[q].has_contents } }

\* C20: the delete requests name only objects whose LastModified is
\* earlier than the cutoff, none has more than 1000 keys, nothing is
\* raised to the caller, and when the method has ended every old object
\* that was listed is in exactly one request.
C20_EveryListedOldObjectRequested ==
    LET keys == RequestedKeys(deleteRequests)
    IN  /\ cleanupOutcome # "raised"
        /\ \A r \in 1..Len(deleteRequests) :
               Len(deleteRequests[r]) <= 1000
        /\ { keys[j] : j \in 1..Len(keys) } \subseteq OldObjects(pg)
        /\ Cardinality({ keys[j] : j \in 1..Len(keys) }) = Len(keys)
        /\ cpc = "done" =>
               { keys[j] : j \in 1..Len(keys) } = OldObjects(pg)

\* C21: within one call, the candidates that yield a frame are saved under
\* different paths: the returned list names no path twice, and a frame
\* that was written is still the content of its file when the call ends
\* (no later candidate wrote over it).
C21_DistinctPaths ==
    /\ \A n, m \in 1..Len(saved_frames) :
           n # m => saved_frames[n] # saved_frames[m]
    /\ \A n \in 1..Len(savedFrom) :
           savedFrom[n].wrote =>
               [path |-> savedFrom[n].path, frame |-> savedFrom[n].frame[1]]
                   \in files

\* C22: in a dry run main downloads nothing, asks the LLM nothing, writes
\* no summary, sends nothing to Readwise, updates no bookmark, deletes
\* nothing from R2 and leaves the history file as it loaded it, and no
\* move request is made.
C22_DryRunChangesNothing ==
    DRY_RUN =>
        /\ downloaded = {}
        /\ summarized = {}
        /\ ~dirEv.entered
        /\ mdFiles = {}
        /\ readwiseDocs = {}
        /\ tagUpdates = {}
        /\ ~r2Deleted
        /\ mpc # "init" => historyFile = history
        /\ moveCalls = {}
        /\ moves = {}

\* C23: a bookmark whose id is in history (loaded from the history file by
\* Startup, or added by an earlier Publish of the run) is not handled any
\* more: no step of the run verifies it, downloads it, summarizes it, sends
\* a Readwise document for it or updates its tags.
C23_HistorySkipped ==
    [][\A b \in history :
           /\ b \in verified' => b \in verified
           /\ b \in downloaded' => b \in downloaded
           /\ b \in summarized' => b \in summarized
           /\ \A d \in readwiseDocs' : d.id = b => d \in readwiseDocs
           /\ \A u \in tagUpdates' : u.id = b => u \in tagUpdates]_vars

\* C23 witness: the run is over; a bookmark of the loaded history sits in a
\* collection that was fetched, whose other bookmark was verified,
\* downloaded and summarized, and it was itself left alone.
C23_Witness ==
    /\ mpc = "done"
    /\ \E b \in history, o \in summarized :
           /\ b # o
           /\ inColl[b] = inColl[o]
           /\ b \notin verified
           /\ b \notin downloaded
           /\ o \in verified
           /\ o \in downloaded

\* C24: when the HTML body of a bookmark is put together (line 262-267, the
\* state before Publish) it takes an image block only if frames were
\* captured for this bookmark in this iteration, the block is not one built
\* for an earlier bookmark, and it has a block exactly when the Markdown
\* file of the bookmark has one; the same of every document sent.
C24_HtmlImagesOfThisBookmark ==
    /\ mpc = "publish" =>
           /\ images_html_block # <<>> =>
                  /\ dirEv.frames > 0
                  /\ images_html_block[1].owner = new_candidates[ii]
           /\ (images_html_block # <<>>) <=> (images_md # <<>>)
    /\ \A d \in readwiseDocs :
           /\ d.images # <<>> => d.images[1].owner = d.id
           /\ \A f \in mdFiles :
                  f.id = d.id => ((f.images # <<>>) <=> (d.images # <<>>))

============================================================================
